---- MODULE Spec2Model ----
(***************************************************************************)
(* Solana DexScreener token bot: the poll-cycle controller                 *)
(* (SolanaTokenBot), the membership tracker (TokenTracker, three           *)
(* iterations) and the freshness / liquidity filter (DexScreenerService,   *)
(* four iterations).                                                       *)
(*                                                                         *)
(* Time is Date.now() in milliseconds.  pairCreatedAt is in seconds, as    *)
(* the code reads it (it multiplies by 1000).  An absent pairCreatedAt is  *)
(* 0: every test the code makes on it (!x, x || 0, filter(x)) treats 0 and *)
(* undefined alike.                                                        *)
(***************************************************************************)
EXTENDS Integers, Sequences, FiniteSets, Bags, TLC

VARIABLES
    now,            \* Date.now(), ms
    ticks,          \* how many times the clock has advanced
    env,            \* process.env: whether the required variables are set, and
                    \* MIN_LIQUIDITY_USD and MAX_TOKEN_AGE_SECONDS (<<>> when unset)
    variant,        \* controller iteration: "batch" (first) or "inline" (second)
    startPc,        \* position of main()/start(): "boot","configError","init","testing","firstCheck","started","failed"
    isRunning,      \* SolanaTokenBot.isRunning
    intervalId,     \* SolanaTokenBot.intervalId is set
    exited,         \* process.exit was called
    stopped,        \* history: whether a signal handler called stop(), and what it found
    dispatched,     \* history: the dispatches that returned, the first `limit` of them
    trackerKind,    \* TokenTracker iteration: "ephemeral", "durable", "legacy"
    sentTokens,     \* TokenTracker.sentTokens, in insertion order
    cleanupTimer,   \* TokenTracker.cleanupTimer is set
    file,           \* sent-tokens.json (durable and legacy trackers)
    lastOp,         \* history: the last tracker operation
    cycles,         \* the invocations of checkForNewTokens, a bag of records
    filterKind,     \* DexScreenerService iteration under test
    response,       \* response.data.pairs handed to the filter
    filtered,       \* what the filter returned
    filterPc,       \* "ready", then "done" or "failed"
    stats           \* the filter's rejection counters

vars == <<now, ticks, env, variant, startPc, isRunning, intervalId, exited, stopped,
          dispatched, trackerKind, sentTokens, cleanupTimer, file, lastOp,
          cycles, filterKind, response, filtered, filterPc, stats>>

ctlVars == <<env, variant, startPc, isRunning, intervalId, exited, stopped, dispatched, cycles>>
trkVars == <<trackerKind, sentTokens, cleanupTimer, file, lastOp>>
fltVars == <<filterKind, response, filtered, filterPc, stats>>

----------------------------------------------------------------------------
(* Bounds *)

MaxTicks == 1        \* clock advances in a behaviour of the controller
MaxActive == 2       \* invocations of checkForNewTokens in flight at one time
MaxTrackerTicks == 3 \* clock advances in a behaviour of the tracker alone
MaxRepeat == 2       \* successive marks of one address that are counted
MaxCleanupPeriods == 6 \* cleanup periods a behaviour of the timed tracker lasts
MaxItems == 2        \* length of a response handed to the filter alone
MaxSent == 3         \* successful dispatches a behaviour of whole cycles records
MaxPollPeriods == 2  \* poll periods that pass in a behaviour of the running controller
MaxHistory == 2      \* dispatches the history of the running controller records

(* Program constants *)

maxAgeMs == 120000           \* ephemeral tracker retention
maxTokenAgeSeconds == 60     \* MAX_TOKEN_AGE_SECONDS default
minLiquidityUsd == 50        \* MIN_LIQUIDITY_USD default
maxTokensPerBatch == 10      \* fetchNewSolanaPairs(maxTokensPerBatch = 10)
maxTokenAgeHours == 6        \* hours-based filter default
minLiquidityUsdHours == 500  \* hours-based filter default
topNewest == 10              \* slice(0, 10) of the second seconds-based filter

cleanupIntervalMs == 30000   \* TokenTracker.cleanupIntervalMs
checkIntervalMs == 20000      \* CHECK_INTERVAL default, in ms
durableMaxAgeMs == 24 * 60 * 60 * 1000
fiveMinutesMs == 5 * 60 * 1000
Now0 == 100000 * 1000        \* the clock when the process starts

Addresses == {"A", "B"}

----------------------------------------------------------------------------
(* TokenTracker *)

\* The address of an entry: a Map entry [address, timestamp], or a Set member.
EntryAddress(e) == IF trackerKind = "legacy" THEN e ELSE e[1]

TrackedAddresses(tokens) == {EntryAddress(tokens[j]) : j \in 1..Len(tokens)}

RetentionMs == IF trackerKind = "durable" THEN durableMaxAgeMs ELSE maxAgeMs

\* hasSent as it would be with an expiry test in it
hasSentUnexpired(tokenAddress) ==
    \E j \in 1..Len(sentTokens) :
        /\ EntryAddress(sentTokens[j]) = tokenAddress
        /\ trackerKind = "legacy" \/ now - sentTokens[j][2] <= RetentionMs

hasSent(tokenAddress) == tokenAddress \in TrackedAddresses(sentTokens)

getSentCount == Len(sentTokens)

\* a store that pushes an entry without looking for the key
MapPush(m, k, v) == Append(m, <<k, v>>)

\* Map.prototype.set: an existing key keeps its place and takes the new value.
MapSet(m, k, v) ==
    IF \E j \in 1..Len(m) : m[j][1] = k
    THEN [j \in 1..Len(m) |-> IF m[j][1] = k THEN <<k, v>> ELSE m[j]]
    ELSE Append(m, <<k, v>>)

\* Set.prototype.add
SetAdd(s, k) == IF \E j \in 1..Len(s) : s[j] = k THEN s ELSE Append(s, k)

\* a mark that tracks address B along with the one it is given
MarkedTokensAlso(tokens, tokenAddress, t) ==
    IF trackerKind = "legacy" THEN SetAdd(SetAdd(tokens, tokenAddress), "B")
    ELSE MapSet(MapSet(tokens, tokenAddress, t), "B", t)

\* markAsSent: the in-memory part
MarkedTokens(tokens, tokenAddress, t) ==
    IF trackerKind = "legacy" THEN SetAdd(tokens, tokenAddress)
    ELSE MapSet(tokens, tokenAddress, t)

\* cleanup as it would be with the boundary instant on the other side
CleanedUpInclusive(tokens, t) ==
    LET cutoff == t - maxAgeMs
        Keep(e) == ~(e[2] <= cutoff)
    IN SelectSeq(tokens, Keep)

\* a cleanup that empties the map
CleanedUpAll(tokens, t) == <<>>

\* TokenTracker.cleanup (ephemeral): delete when timestamp < now - maxAgeMs
CleanedUp(tokens, t) ==
    LET cutoff == t - maxAgeMs
        Keep(e) == ~(e[2] < cutoff)
    IN SelectSeq(tokens, Keep)

\* TokenTracker.cleanOldEntries (durable): delete when now - timestamp > maxAgeMs
CleanedOld(tokens, t) ==
    LET Keep(e) == ~(t - e[2] > durableMaxAgeMs)
    IN SelectSeq(tokens, Keep)

\* new Map(entries): a later entry of a key overrides an earlier one
RECURSIVE MapFrom(_)
MapFrom(entries) ==
    IF entries = <<>> THEN <<>>
    ELSE LET e == entries[Len(entries)]
         IN MapSet(MapFrom(SubSeq(entries, 1, Len(entries) - 1)), e[1], e[2])

\* new Set(tokens)
RECURSIVE SetFrom(_)
SetFrom(tokens) ==
    IF tokens = <<>> THEN <<>>
    ELSE SetAdd(SetFrom(SubSeq(tokens, 1, Len(tokens) - 1)), tokens[Len(tokens)])

\* sent-tokens.json: format "missing" (no file), "corrupt" (JSON.parse
\* throws), "legacy" (an array of address strings) or "tokens" (an array of
\* {address, timestamp})
NoFile == [format |-> "missing", tokens |-> <<>>]

\* a save that writes the addresses and no instants
TrackedTokensUnstamped(tokens) ==
    [j \in 1..Len(tokens) |-> [address |-> tokens[j][1], timestamp |-> 0]]

\* saveToFile: Array.from(entries).map(([address, timestamp]) =>
\* ({ address, timestamp })), as JSON.stringify writes it
TrackedTokens(tokens) ==
    [j \in 1..Len(tokens) |-> [address |-> tokens[j][1], timestamp |-> tokens[j][2]]]

\* what is written: the durable tracker's TrackedToken[], the legacy
\* tracker's array of addresses
Written(tokens) == IF trackerKind = "legacy" THEN tokens ELSE TrackedTokens(tokens)

\* loadFromFile: parsed.map(t => [t.address, t.timestamp])
ParsedEntries(parsed) ==
    [j \in 1..Len(parsed) |-> <<parsed[j].address, parsed[j].timestamp>>]

\* a failed write that leaves the file cut short
SavedOrTruncated(tokens, old, writeOk) ==
    IF ~writeOk THEN [format |-> "corrupt", tokens |-> <<>>]
    ELSE [format |-> IF trackerKind = "legacy" THEN "legacy" ELSE "tokens",
          tokens |-> Written(tokens)]

\* saveToFile: writeFileSync may fail; the error is caught and logged
Saved(tokens, old, writeOk) ==
    IF ~writeOk THEN old
    ELSE [format |-> IF trackerKind = "legacy" THEN "legacy" ELSE "tokens",
          tokens |-> Written(tokens)]

\* a load that migrates in memory only
LoadedDurableUnsaved(f, t, writeOk) ==
    IF f.format \in {"missing", "corrupt"} THEN [tokens |-> <<>>, file |-> f]
    ELSE IF f.format = "legacy" /\ Len(f.tokens) > 0
    THEN [tokens |-> MapFrom([j \in 1..Len(f.tokens) |-> <<f.tokens[j], t>>]), file |-> f]
    ELSE [tokens |-> MapFrom(ParsedEntries(f.tokens)), file |-> f]

\* loadFromFile of the durable tracker: [tokens, file]
LoadedDurable(f, t, writeOk) ==
    IF f.format \in {"missing", "corrupt"} THEN [tokens |-> <<>>, file |-> f]
    ELSE IF f.format = "legacy" /\ Len(f.tokens) > 0
    THEN LET migrated == MapFrom([j \in 1..Len(f.tokens) |-> <<f.tokens[j], t>>])
         IN [tokens |-> migrated, file |-> Saved(migrated, f, writeOk)]
    ELSE [tokens |-> MapFrom(ParsedEntries(f.tokens)), file |-> f]

\* the durable tracker's constructor: loadFromFile, then cleanOldEntries,
\* which saves when it removed something
ConstructedDurable(f, t, writeOk) ==
    LET loaded == LoadedDurable(f, t, writeOk)
        kept == CleanedOld(loaded.tokens, t)
    IN [loaded |-> loaded.tokens,
        tokens |-> kept,
        file |-> IF Len(kept) < Len(loaded.tokens) THEN Saved(kept, loaded.file, writeOk)
                 ELSE loaded.file]

\* the legacy tracker's constructor: loadFromFile
ConstructedLegacy(f) ==
    LET tokens == IF f.format \in {"missing", "corrupt"} THEN <<>> ELSE SetFrom(f.tokens)
    IN [loaded |-> tokens, tokens |-> tokens, file |-> f]

Constructed(f, t, writeOk) ==
    CASE trackerKind = "durable" -> ConstructedDurable(f, t, writeOk)
      [] trackerKind = "legacy" -> ConstructedLegacy(f)
      [] OTHER -> [loaded |-> <<>>, tokens |-> <<>>, file |-> f]

\* history record of a tracker operation
NoOp == [op |-> "none", id |-> "", rep |-> 0, count |-> 0, before |-> <<>>, at |-> 0,
         store |-> NoFile, wrote |-> TRUE]

----------------------------------------------------------------------------
(* DexScreenerService: the filters.  A pair is
     [address, chainId, pairCreatedAt, liquidity]
   with liquidity <<>> when liquidity?.usd is undefined and <<usd>> otherwise. *)

LiquidityOrZero(pair) == IF pair.liquidity = <<>> THEN 0 ELSE pair.liquidity[1]

IsSolana(pair) == pair.chainId = "solana"

HasCreatedAt(pair) == pair.pairCreatedAt # 0

\* a sort that puts a pair before the earlier pairs of its own age
RECURSIVE SortNewestFirstTiesReversed(_)
SortNewestFirstTiesReversed(s) ==
    IF s = <<>> THEN <<>>
    ELSE LET r == SortNewestFirstTiesReversed(SubSeq(s, 1, Len(s) - 1))
             p == s[Len(s)]
             k == Cardinality({j \in 1..Len(r) : r[j].pairCreatedAt > p.pairCreatedAt})
         IN SubSeq(r, 1, k) \o <<p>> \o SubSeq(r, k + 1, Len(r))

\* Array.prototype.sort((a, b) => b.pairCreatedAt - a.pairCreatedAt): stable,
\* newest first.
RECURSIVE SortNewestFirst(_)
SortNewestFirst(s) ==
    IF s = <<>> THEN <<>>
    ELSE LET r == SortNewestFirst(SubSeq(s, 1, Len(s) - 1))
             p == s[Len(s)]
             k == Cardinality({j \in 1..Len(r) : r[j].pairCreatedAt >= p.pairCreatedAt})
         IN SubSeq(r, 1, k) \o <<p>> \o SubSeq(r, k + 1, Len(r))

Slice(s, n) == SubSeq(s, 1, IF Len(s) < n THEN Len(s) ELSE n)

\* the minimum a filter iteration is constructed with:
\* parseFloat(process.env.MIN_LIQUIDITY_USD || default); the five-minute
\* iteration has no liquidity step
MinLiquidity(kind) ==
    IF kind = "fiveMinutes" THEN 0
    ELSE IF env.MIN_LIQUIDITY_USD # <<>> THEN env.MIN_LIQUIDITY_USD[1]
    ELSE IF kind = "hours" THEN minLiquidityUsdHours
    ELSE minLiquidityUsd

\* the window the seconds-based filters are constructed with:
\* parseInt(process.env.MAX_TOKEN_AGE_SECONDS || '60', 10)
MaxTokenAge ==
    IF env.MAX_TOKEN_AGE_SECONDS # <<>> THEN env.MAX_TOKEN_AGE_SECONDS[1]
    ELSE maxTokenAgeSeconds

\* an applyFilters that tests the liquidity before the age
CategoryLiquidityFirst(pair, t) ==
    LET createdAtMs == pair.pairCreatedAt * 1000
        cutoffTime == t - maxTokenAgeHours * 60 * 60 * 1000
    IN IF ~HasCreatedAt(pair) THEN "noTimestamp"
       ELSE IF createdAtMs > t THEN "futureDate"
       ELSE IF LiquidityOrZero(pair) < MinLiquidity("hours") THEN "lowLiquidity"
       ELSE IF createdAtMs < cutoffTime THEN "tooOld"
       ELSE "accepted"

\* applyFilters: the category the hours-based filter puts a pair in
Category(pair, t) ==
    LET createdAtMs == pair.pairCreatedAt * 1000
        cutoffTime == t - maxTokenAgeHours * 60 * 60 * 1000
    IN IF ~HasCreatedAt(pair) THEN "noTimestamp"
       ELSE IF createdAtMs > t THEN "futureDate"
       ELSE IF createdAtMs < cutoffTime THEN "tooOld"
       ELSE IF LiquidityOrZero(pair) < MinLiquidity("hours") THEN "lowLiquidity"
       ELSE "accepted"

applyFilters(pairs, t) ==
    LET Accepted(pair) == Category(pair, t) = "accepted"
    IN SelectSeq(pairs, Accepted)

CountOf(pairs, t, cat) == Cardinality({j \in 1..Len(pairs) : Category(pairs[j], t) = cat})

applyFiltersStats(pairs, t) ==
    [noTimestamp |-> CountOf(pairs, t, "noTimestamp"),
     futureDate |-> CountOf(pairs, t, "futureDate"),
     tooOld |-> CountOf(pairs, t, "tooOld"),
     lowLiquidity |-> CountOf(pairs, t, "lowLiquidity")]

\* the age test with the boundary instant excluded
IsRecentStrict(pair, t, ageMs) == pair.pairCreatedAt * 1000 > t - ageMs

\* the seconds-based age test: tokenCreatedAt >= cutoffTime
IsRecent(pair, t, ageMs) == pair.pairCreatedAt * 1000 >= t - ageMs

\* the seconds-based liquidity test: usd !== undefined && usd >= minLiquidityUsd
HasLiquidity(pair) == pair.liquidity # <<>> /\ pair.liquidity[1] >= MinLiquidity("batch")

\* the pairs in the order of the response
SolanaPairsUnsorted(pairs) == SelectSeq(SelectSeq(pairs, IsSolana), HasCreatedAt)

SolanaPairsNewestFirst(pairs) ==
    SortNewestFirst(SelectSeq(SelectSeq(pairs, IsSolana), HasCreatedAt))

\* fetchNewSolanaPairs, hours-based: chain filter, applyFilters, sort
FetchHours(pairs, t) == SortNewestFirst(applyFilters(SelectSeq(pairs, IsSolana), t))

\* fetchNewSolanaPairs(maxTokensPerBatch): sort, age, liquidity, slice
FetchBatch(pairs, t, batch) ==
    LET Recent(pair) == IsRecent(pair, t, MaxTokenAge * 1000)
        recentPairs == SelectSeq(SolanaPairsNewestFirst(pairs), Recent)
        liquidPairs == SelectSeq(recentPairs, HasLiquidity)
    IN Slice(liquidPairs, batch)

\* fetchNewSolanaPairs(), top 10 first: sort, slice(0, 10), age, liquidity
FetchTop(pairs, t) ==
    LET Recent(pair) == IsRecent(pair, t, MaxTokenAge * 1000)
        top == Slice(SolanaPairsNewestFirst(pairs), topNewest)
    IN SelectSeq(SelectSeq(top, Recent), HasLiquidity)

\* fetchNewSolanaPairs(), first iteration: sort, last five minutes
FetchFiveMinutes(pairs, t) ==
    LET Recent(pair) == IsRecent(pair, t, fiveMinutesMs)
    IN SelectSeq(SolanaPairsNewestFirst(pairs), Recent)

FilterOutput(kind, pairs, t) ==
    CASE kind = "hours" -> FetchHours(pairs, t)
      [] kind = "batch" -> FetchBatch(pairs, t, maxTokensPerBatch)
      [] kind = "top" -> FetchTop(pairs, t)
      [] kind = "fiveMinutes" -> FetchFiveMinutes(pairs, t)

\* the age window of a filter iteration, in seconds
MaxAgeSeconds(kind) ==
    CASE kind = "hours" -> maxTokenAgeHours * 60 * 60
      [] kind = "fiveMinutes" -> 5 * 60
      [] OTHER -> MaxTokenAge

NoStats == [noTimestamp |-> 0, futureDate |-> 0, tooOld |-> 0, lowLiquidity |-> 0]

\* the only counter of the top-10 iteration: tooOldCount, over the ten newest
FetchTopStats(pairs, t) ==
    LET top == Slice(SolanaPairsNewestFirst(pairs), topNewest)
    IN [NoStats EXCEPT !.tooOld =
          Cardinality({j \in 1..Len(top) : ~IsRecent(top[j], t, MaxTokenAge * 1000)})]

\* the rejection counters a filter run reports; the batch and five-minute
\* iterations count none
FilterStats(kind, pairs, t) ==
    CASE kind = "hours" -> applyFiltersStats(SelectSeq(pairs, IsSolana), t)
      [] kind = "top" -> FetchTopStats(pairs, t)
      [] OTHER -> NoStats

----------------------------------------------------------------------------
(* SolanaTokenBot: what DexScreener may answer while the controller runs *)

\* an environment with both required variables set
RequiredSet == [TELEGRAM_BOT_TOKEN |-> TRUE, TELEGRAM_CHAT_ID |-> TRUE,
                MIN_LIQUIDITY_USD |-> <<>>, MAX_TOKEN_AGE_SECONDS |-> <<>>]

Pair(a, c, l) == [address |-> a, chainId |-> "solana", pairCreatedAt |-> c, liquidity |-> l]

Sec0 == Now0 \div 1000

\* Two pairs of base token A and one of base token B, all fresh and liquid
\* when the process starts, are on offer.
RECURSIVE SeqsOver(_, _)
SeqsOver(S, n) ==
    IF n = 0 THEN {<<>>}
    ELSE LET shorter == SeqsOver(S, n - 1)
         IN shorter \cup {Append(q, x) : q \in {r \in shorter : Len(r) = n - 1}, x \in S}

\* the address of a pair that came without a baseToken: reading
\* pair.baseToken.address raises a TypeError
NoBaseToken == "-"

HasBaseToken(pair) == pair.address # NoBaseToken

\* the position of the first pair without a baseToken, or Len + 1
FirstMalformed(pairs) ==
    CHOOSE k \in 1..(Len(pairs) + 1) :
        /\ k = Len(pairs) + 1 \/ ~HasBaseToken(pairs[k])
        /\ \A m \in 1..(k - 1) : HasBaseToken(pairs[m])

\* The answers tried: nothing, B alone, B followed by an older pair without a
\* baseToken, and all three (in an order the filter has to sort).
Responses ==
    {<<>>,
     <<Pair("B", Sec0 - 5, <<100>>)>>,
     <<Pair(NoBaseToken, Sec0 - 10, <<100>>), Pair("B", Sec0 - 5, <<100>>)>>,
     <<Pair("A", Sec0 - 10, <<100>>), Pair("B", Sec0 - 5, <<100>>), Pair("A", Sec0, <<100>>)>>}

\* a fetch whose failure is not noticed
FetchedDespiteFailure(ok, pairs, t) ==
    IF variant = "batch" THEN FetchBatch(pairs, t, maxTokensPerBatch)
    ELSE FetchTop(pairs, t)

\* what fetchNewSolanaPairs resolves to: the filtered pairs, or [] when the
\* request failed (the error is caught and logged inside it)
Fetched(ok, pairs, t) ==
    IF ~ok THEN <<>>
    ELSE IF variant = "batch" THEN FetchBatch(pairs, t, maxTokensPerBatch)
    ELSE FetchTop(pairs, t)

\* an invocation of checkForNewTokens that awaits its fetch; `first` tells
\* the one start() awaits
NewCycle(first) ==
    [pc |-> "fetching", first |-> first, pairs |-> <<>>, newPairs |-> <<>>, i |-> 0,
     sentCount |-> 0, failedCount |-> 0, alreadySentCount |-> 0,
     log |-> <<>>, heldAt |-> <<>>, error |-> "none"]

Invocations == BagToSet(cycles)

Active(r) == r.pc \in {"fetching", "sending", "sleeping"}

ActiveCount ==
    LET RECURSIVE Sum(_)
        Sum(S) == IF S = {} THEN 0
                  ELSE LET r == CHOOSE x \in S : TRUE
                       IN CopiesIn(r, cycles) + Sum(S \ {r})
    IN Sum({r \in Invocations : Active(r)})

\* The invocations in flight.  What a finished invocation left behind is
\* kept until another one starts or finishes.
StillActive == [r \in {x \in Invocations : Active(x)} |-> cycles[r]]

\* the partition left out
NewPairsUnfiltered(pairs) == pairs

\* pairs.filter(pair => !this.tokenTracker.hasSent(pair.baseToken.address))
NewPairs(pairs) ==
    LET NotSent(pair) == ~hasSent(pair.address)
    IN SelectSeq(pairs, NotSent)

\* the for-of loop of the second controller, from position `from` (1-based):
\* the first pair that hasSent does not hold, or Len + 1
RECURSIVE NextUnsent(_, _)
NextUnsent(pairs, from) ==
    IF from > Len(pairs) THEN from
    ELSE IF hasSent(pairs[from].address) THEN NextUnsent(pairs, from + 1)
    ELSE from

\* history: hasSent's verdict on pairs[from..to - 1] (all held) and pairs[to]
HeldVerdicts(pairs, from, to) ==
    [j \in 1..((IF to > Len(pairs) THEN Len(pairs) ELSE to) - from + 1) |->
        pairs[from + j - 1].address \in TrackedAddresses(sentTokens)]

\* the exception propagates out of checkForNewTokens
EscapedCycle(r) == [r EXCEPT !.pc = "rejected", !.error = "caught"]

\* the catch block of checkForNewTokens: the error is logged and the
\* invocation returns
CaughtCycle(r) == [r EXCEPT !.pc = "done", !.error = "caught"]

\* a start() that schedules the timer as soon as the first check yields
StartResumesEarly(r, pc) == r.first /\ startPc = "firstCheck"

\* start() resumes when its awaited first check settles: setInterval
StartResumes(r, pc) == r.first /\ pc = "done" /\ startPc = "firstCheck"

Settle(r, rec) ==
    /\ cycles' = IF rec.pc = "done"
                 THEN (StillActive (-) SetToBag({r})) (+) SetToBag({rec})
                 ELSE (cycles (-) SetToBag({r})) (+) SetToBag({rec})
    /\ IF StartResumes(r, rec.pc)
       THEN intervalId' = TRUE /\ startPc' = "started"
       ELSE UNCHANGED <<intervalId, startPc>>

----------------------------------------------------------------------------
(* SolanaTokenBot: actions *)

\* loadConfig() with the first check only
loadConfigTokenOnly(e) ==
    IF ~e.TELEGRAM_BOT_TOKEN THEN "TELEGRAM_BOT_TOKEN environment variable is required"
    ELSE "ok"

\* loadConfig(): the message of the Error it throws, or "ok"
loadConfig(e) ==
    IF ~e.TELEGRAM_BOT_TOKEN THEN "TELEGRAM_BOT_TOKEN environment variable is required"
    ELSE IF ~e.TELEGRAM_CHAT_ID THEN "TELEGRAM_CHAT_ID environment variable is required"
    ELSE "ok"

\* main() constructs the bot: the constructor calls loadConfig().  Its Error
\* is thrown before main()'s try block and before any handler is
\* registered: main() rejects and the process ends.
Main ==
    /\ ~exited /\ startPc = "boot"
    /\ IF loadConfig(env) = "ok"
       THEN startPc' = "init" /\ UNCHANGED exited
       ELSE startPc' = "configError" /\ exited' = TRUE
    /\ UNCHANGED <<now, ticks, env, variant, dispatched, stopped, isRunning, intervalId, cycles,
                   trkVars, fltVars>>

\* a start() without its guard
StartEntryUnguarded(running, pc) == "testing"

\* start(): `if (this.isRunning) return;`, else on to the awaited
\* telegram.testConnection()
StartEntry(running, pc) == IF running THEN pc ELSE "testing"

\* a call of bot.start(): the one main() makes, or a further one while the
\* bot is running, which logs a warning and returns
StartCall ==
    /\ ~exited /\ (startPc = "init" \/ isRunning)
    /\ startPc' = StartEntry(isRunning, startPc)
    /\ UNCHANGED <<now, ticks, env, variant, dispatched, stopped, isRunning, intervalId, exited, cycles,
                   trkVars, fltVars>>

\* a start() that never sets isRunning
RunningNeverSet(connected) == FALSE

\* this.isRunning = true, reached when testConnection() resolved to true
RunningAfterTest(connected) == connected

\* testConnection() settles: on false start() throws and main() exits; on
\* true the first checkForNewTokens is called and awaits the fetch
TestConnectionReturn(connected) ==
    /\ ~exited /\ startPc = "testing"
    /\ IF connected
       THEN /\ isRunning' = RunningAfterTest(connected)
            /\ startPc' = "firstCheck"
            /\ cycles' = SetToBag({NewCycle(TRUE)})
            /\ UNCHANGED exited
       ELSE /\ startPc' = "failed"
            /\ exited' = TRUE
            /\ UNCHANGED <<isRunning, cycles>>
    /\ UNCHANGED <<now, ticks, env, variant, dispatched, stopped, intervalId, trkVars, fltVars>>

\* a timer that fires once: setTimeout where the code has setInterval
PollTickOnce ==
    /\ ~exited /\ intervalId /\ cycles = EmptyBag
    /\ cycles' = SetToBag({NewCycle(FALSE)})
    /\ UNCHANGED <<now, ticks, env, variant, dispatched, stopped, startPc, isRunning, intervalId, exited,
                   trkVars, fltVars>>

\* the setInterval callback: it calls checkForNewTokens, whatever earlier
\* invocations are doing
PollTick ==
    /\ ~exited /\ intervalId /\ ActiveCount < MaxActive
    /\ cycles' = StillActive (+) SetToBag({NewCycle(FALSE)})
    /\ UNCHANGED <<now, ticks, env, variant, dispatched, stopped, startPc, isRunning, intervalId, exited,
                   trkVars, fltVars>>

\* history: the dispatch of `pair` returned `result`
Recorded(h, result, pair) ==
    IF Len(h.log) < h.limit THEN [h EXCEPT !.log = Append(@, <<result, pair>>)] ELSE h

\* a hasSent that refreshes the entry it finds
TokensAfterHasRefreshed(tokens, tokenAddress, t) ==
    IF tokenAddress \in TrackedAddresses(tokens) THEN MarkedTokens(tokens, tokenAddress, t)
    ELSE tokens

\* hasSent(tokenAddress): `return this.sentTokens.has(tokenAddress)` reads
\* the Map and leaves it as it is
TokensAfterHas(tokens, tokenAddress, t) == tokens

\* the Map after hasSent was asked of pairs[from..to], in order
RECURSIVE AfterHasCalls(_, _, _, _, _)
AfterHasCalls(tokens, pairs, from, to, t) ==
    IF from > to \/ from > Len(pairs) THEN tokens
    ELSE AfterHasCalls(TokensAfterHas(tokens, pairs[from].address, t), pairs, from + 1, to, t)

\* a count of the dropped candidates that stays at 0
AlreadySentNone(pairs, newPairs) == 0

\* const alreadySentCount = pairs.length - newPairs.length
AlreadySent(pairs, newPairs) == Len(pairs) - Len(newPairs)

\* first controller: the fetch settles; partition by hasSent; first dispatch
FetchReturnBatch(r, ok, resp) ==
    /\ ~exited /\ variant = "batch" /\ r.pc = "fetching"
    /\ LET pairs == Fetched(ok, resp, now)
           k == FirstMalformed(pairs)
           newPairs == NewPairs(pairs)
           held == HeldVerdicts(pairs, 1, Len(pairs))
           rec == IF k <= Len(pairs)
                  THEN CaughtCycle([r EXCEPT !.pairs = pairs,
                                             !.heldAt = HeldVerdicts(pairs, 1, k - 1)])
                  ELSE [r EXCEPT
                     !.pairs = pairs,
                     !.newPairs = IF pairs = <<>> THEN <<>> ELSE newPairs,
                     !.alreadySentCount = AlreadySent(pairs, newPairs),
                     !.heldAt = held,
                     !.pc = IF pairs = <<>> \/ newPairs = <<>> THEN "done" ELSE "sending",
                     !.log = IF pairs = <<>> \/ newPairs = <<>> THEN <<>>
                             ELSE <<<<"send", newPairs[1]>>>>,
                     !.error = IF ok THEN "none" ELSE "fetch"]
       IN /\ Settle(r, rec)
          /\ sentTokens' = AfterHasCalls(sentTokens, pairs, 1, k - 1, now)
    /\ UNCHANGED <<now, ticks, env, variant, dispatched, stopped, isRunning, exited,
                   trackerKind, cleanupTimer, file, lastOp, fltVars>>

\* the mark made whatever sendTokenAlert returned
TokensAfterSendAlways(sent, tokens, tokenAddress, t) ==
    MarkedTokens(tokens, tokenAddress, t)

\* if (sent) this.tokenTracker.markAsSent(tokenAddress)
TokensAfterSend(sent, tokens, tokenAddress, t) ==
    IF sent THEN MarkedTokens(tokens, tokenAddress, t) ELSE tokens

\* first controller, sent: count, then sleep(1500) unless this was the last
SentBatch(r) ==
    LET pair == r.newPairs[r.i + 1]
        last == ~(r.i < Len(r.newPairs) - 1)
    IN [r EXCEPT
          !.sentCount = @ + 1,
          !.i = IF last THEN @ + 1 ELSE @,
          !.pc = IF last THEN "done" ELSE "sleeping",
          !.log = @ \o <<<<"sent", pair>>, <<"mark", pair>>>>
                    \o (IF last THEN <<>> ELSE <<<<"sleep", pair>>>>)]

\* a failure that ends the loop
FailedBatchAbort(r, how) ==
    [r EXCEPT !.failedCount = @ + 1, !.i = @ + 1, !.pc = "done",
              !.log = Append(@, <<how, r.newPairs[r.i + 1]>>)]

\* first controller, not sent (the else branch when sendTokenAlert returned
\* false, the catch when it threw): count, then straight on to the next pair
FailedBatch(r, how) ==
    LET pair == r.newPairs[r.i + 1]
        last == ~(r.i < Len(r.newPairs) - 1)
    IN [r EXCEPT
          !.failedCount = @ + 1,
          !.i = @ + 1,
          !.pc = IF last THEN "done" ELSE "sending",
          !.log = @ \o <<<<how, pair>>>>
                    \o (IF last THEN <<>> ELSE <<<<"send", r.newPairs[r.i + 2]>>>>)]

\* how the awaited sendTokenAlert(pair, i) may settle
DispatchResults == {"sent", "failed", "threw"}

\* first controller: sendTokenAlert settles
SendReturnBatch(r, result) ==
    /\ ~exited /\ variant = "batch" /\ r.pc = "sending"
    /\ LET pair == r.newPairs[r.i + 1]
           sent == result = "sent"
       IN /\ Settle(r, IF sent THEN SentBatch(r) ELSE FailedBatch(r, result))
          /\ sentTokens' = TokensAfterSend(sent, sentTokens, pair.address, now)
          /\ dispatched' = Recorded(dispatched, result, pair)
    /\ UNCHANGED <<now, ticks, env, variant, stopped, isRunning, exited, 
                   trackerKind, cleanupTimer, file, lastOp, fltVars>>

\* first controller: sleep(1500) settles; next dispatch
SleepReturnBatch(r) ==
    /\ ~exited /\ variant = "batch" /\ r.pc = "sleeping"
    /\ LET rec == [r EXCEPT !.i = @ + 1, !.pc = "sending",
                            !.log = @ \o <<<<"send", r.newPairs[r.i + 2]>>>>]
       IN Settle(r, rec)
    /\ UNCHANGED <<now, ticks, env, variant, dispatched, stopped, isRunning, exited,
                   trkVars, fltVars>>

\* second controller: the for-of loop runs on from pairs[from] until it
\* awaits a dispatch or ends; pairs that hasSent holds are counted and skipped
Advance(r, from) ==
    LET j == NextUnsent(r.pairs, from)
    IN IF j <= Len(r.pairs) /\ ~HasBaseToken(r.pairs[j])
       THEN CaughtCycle([r EXCEPT !.alreadySentCount = @ + (j - from),
                                  !.heldAt = @ \o HeldVerdicts(r.pairs, from, j - 1)])
       ELSE
       [r EXCEPT
          !.alreadySentCount = @ + (j - from),
          !.heldAt = @ \o HeldVerdicts(r.pairs, from, j),
          !.i = IF j > Len(r.pairs) THEN Len(r.pairs) ELSE j - 1,
          !.pc = IF j > Len(r.pairs) THEN "done" ELSE "sending",
          !.log = IF j > Len(r.pairs) THEN @ ELSE Append(@, <<"send", r.pairs[j]>>)]

\* second controller: the Map after the hasSent calls of the loop from
\* pairs[from] on, up to the pair it stops at
AdvanceTokens(tokens, pairs, from, t) ==
    LET j == NextUnsent(pairs, from)
        to == IF j <= Len(pairs) /\ HasBaseToken(pairs[j]) THEN j ELSE j - 1
    IN AfterHasCalls(tokens, pairs, from, to, t)

\* second controller: the fetch settles; the loop starts
FetchReturnInline(r, ok, resp) ==
    /\ ~exited /\ variant = "inline" /\ r.pc = "fetching"
    /\ LET pairs == Fetched(ok, resp, now)
           rec == IF pairs = <<>>
                  THEN [r EXCEPT !.pc = "done", !.error = IF ok THEN "none" ELSE "fetch"]
                  ELSE Advance([r EXCEPT !.pairs = pairs], 1)
       IN /\ Settle(r, rec)
          /\ sentTokens' = AdvanceTokens(sentTokens, pairs, 1, now)
    /\ UNCHANGED <<now, ticks, env, variant, dispatched, stopped, isRunning, exited,
                   trackerKind, cleanupTimer, file, lastOp, fltVars>>

\* second controller: sendTokenAlert settles with `sent`
SendReturnInline(r, sent) ==
    /\ ~exited /\ variant = "inline" /\ r.pc = "sending"
    /\ LET pair == r.pairs[r.i + 1]
           rec == IF sent
                  THEN [r EXCEPT
                          !.sentCount = @ + 1,
                          !.pc = "sleeping",
                          !.log = @ \o <<<<"sent", pair>>, <<"mark", pair>>, <<"sleep", pair>>>>]
                  ELSE Advance([r EXCEPT !.log = Append(@, <<"failed", pair>>)], r.i + 2)
       IN /\ Settle(r, rec)
          /\ sentTokens' = IF sent THEN TokensAfterSend(sent, sentTokens, pair.address, now)
                           ELSE AdvanceTokens(TokensAfterSend(sent, sentTokens, pair.address, now),
                                              r.pairs, r.i + 2, now)
          /\ dispatched' = Recorded(dispatched, IF sent THEN "sent" ELSE "failed", pair)
    /\ UNCHANGED <<now, ticks, env, variant, stopped, isRunning, exited, 
                   trackerKind, cleanupTimer, file, lastOp, fltVars>>

\* second controller: sleep(1000) settles; the loop runs on
SleepReturnInline(r) ==
    /\ ~exited /\ variant = "inline" /\ r.pc = "sleeping"
    /\ Settle(r, Advance(r, r.i + 2))
    /\ sentTokens' = AdvanceTokens(sentTokens, r.pairs, r.i + 2, now)
    /\ UNCHANGED <<now, ticks, env, variant, dispatched, stopped, isRunning, exited,
                   trackerKind, cleanupTimer, file, lastOp, fltVars>>

\* the tracker's setInterval callback: cleanup()
CleanupTick ==
    /\ ~exited /\ trackerKind = "ephemeral" /\ cleanupTimer
    /\ sentTokens' = CleanedUp(sentTokens, now)
    /\ UNCHANGED <<now, ticks, ctlVars, trackerKind, cleanupTimer, file, lastOp, fltVars>>

\* stop(): nothing when the bot is not running, else clearInterval
StoppedIntervalKept(running, id) == id

StoppedInterval(running, id) == IF running THEN FALSE ELSE id

\* a handler that returns after stop()
ProcessExitSkipped(c, tokens) == [exited |-> FALSE, cycles |-> c, sentTokens |-> tokens]

\* process.exit(0): with the process its heap goes, the invocations in
\* flight and the tracker's map
ProcessExit(c, tokens) == [exited |-> TRUE, cycles |-> EmptyBag, sentTokens |-> <<>>]

NotStopped == [called |-> FALSE, running |-> FALSE, inFlight |-> {}]

\* no history of dispatches is kept
NoHistory == [limit |-> 0, log |-> <<>>]

\* whether invocation r has an item after the one it is at
LaterItem(r) ==
    IF variant = "batch" THEN r.i + 1 < Len(r.newPairs) ELSE r.i + 1 < Len(r.pairs)

\* SIGINT / SIGTERM handler: bot.stop(), then process.exit(0).  Only the
\* first controller's stop() stops the tracker's timer.  Before main() has
\* registered the handlers the signal ends the process without stop().
Signal ==
    /\ ~exited
    /\ isRunning' = FALSE
    /\ intervalId' = StoppedInterval(isRunning, intervalId)
    /\ cleanupTimer' = IF isRunning /\ variant = "batch" THEN FALSE ELSE cleanupTimer
    /\ LET after == ProcessExit(cycles, sentTokens)
       IN /\ exited' = after.exited
          /\ cycles' = after.cycles
          /\ sentTokens' = after.sentTokens
    /\ stopped' = IF startPc = "boot" THEN stopped
                  ELSE [called |-> TRUE, running |-> isRunning,
                        inFlight |-> {[pc |-> r.pc, later |-> LaterItem(r)] :
                                        r \in {x \in Invocations : Active(x)}}]
    /\ UNCHANGED <<now, ticks, env, variant, dispatched, startPc,
                   trackerKind, file, lastOp, fltVars>>

\* time passes: long enough for every entry made so far to expire
TickSteps == {maxAgeMs + 1}

Tick(d) ==
    /\ ~exited /\ ticks < MaxTicks
    /\ now' = now + d
    /\ ticks' = ticks + 1
    /\ UNCHANGED <<ctlVars, trkVars, fltVars>>

Init ==
    /\ now = Now0 /\ ticks = 0
    /\ env \in [TELEGRAM_BOT_TOKEN : BOOLEAN, TELEGRAM_CHAT_ID : BOOLEAN,
                MIN_LIQUIDITY_USD : {<<>>}, MAX_TOKEN_AGE_SECONDS : {<<>>}]
    /\ variant \in {"batch", "inline"}
    /\ startPc = "boot" /\ isRunning = FALSE /\ intervalId = FALSE /\ exited = FALSE /\ stopped = NotStopped /\ dispatched = NoHistory
    /\ trackerKind = "ephemeral" /\ sentTokens = <<>> /\ cleanupTimer = TRUE
    /\ file = NoFile
    /\ lastOp = NoOp
    /\ cycles = EmptyBag
    /\ filterKind = "batch" /\ response = <<>> /\ filtered = <<>>
    /\ filterPc = "ready" /\ stats = NoStats

Next ==
    \/ Main
    \/ StartCall
    \/ \E connected \in BOOLEAN : TestConnectionReturn(connected)
    \/ PollTick
    \/ \E r \in Invocations, ok \in BOOLEAN, resp \in Responses : FetchReturnBatch(r, ok, resp)
    \/ \E r \in Invocations, result \in DispatchResults : SendReturnBatch(r, result)
    \/ \E r \in Invocations : SleepReturnBatch(r)
    \/ \E r \in Invocations, ok \in BOOLEAN, resp \in Responses : FetchReturnInline(r, ok, resp)
    \/ \E r \in Invocations, sent \in BOOLEAN : SendReturnInline(r, sent)
    \/ \E r \in Invocations : SleepReturnInline(r)
    \/ CleanupTick
    \/ Signal
    \/ \E d \in TickSteps : Tick(d)

Spec == Init /\ [][Next]_vars

----------------------------------------------------------------------------
(* TokenTracker alone: every iteration, driven by its public operations,
   its timer, restarts of the process and the passing of time *)

Persistent == trackerKind \in {"durable", "legacy"}

\* markAsSent(tokenAddress)
TrackerMark(tokenAddress, writeOk) ==
    /\ Persistent \/ writeOk
    /\ LET again == lastOp.op = "mark" /\ lastOp.id = tokenAddress
           marked == MarkedTokens(sentTokens, tokenAddress, now)
       IN /\ again => lastOp.rep < MaxRepeat
          /\ sentTokens' = marked
          /\ file' = IF Persistent THEN Saved(marked, file, writeOk) ELSE file
          /\ lastOp' = [NoOp EXCEPT !.op = "mark", !.id = tokenAddress,
                                    !.rep = IF again THEN lastOp.rep + 1 ELSE 1,
                                    !.count = IF again THEN lastOp.count ELSE Len(marked),
                                    !.store = file, !.wrote = writeOk]
    /\ UNCHANGED <<now, ticks, ctlVars, trackerKind, cleanupTimer, fltVars>>

\* the ephemeral tracker's setInterval callback: cleanup()
TrackerCleanup ==
    /\ trackerKind = "ephemeral" /\ cleanupTimer
    /\ sentTokens' = CleanedUp(sentTokens, now)
    /\ lastOp' = [NoOp EXCEPT !.op = "evict", !.before = sentTokens, !.at = now]
    /\ UNCHANGED <<now, ticks, ctlVars, trackerKind, cleanupTimer, file, fltVars>>

\* stop() of the ephemeral tracker
TrackerStop ==
    /\ trackerKind = "ephemeral" /\ cleanupTimer
    /\ cleanupTimer' = FALSE
    /\ lastOp' = [NoOp EXCEPT !.op = "stop"]
    /\ UNCHANGED <<now, ticks, ctlVars, trackerKind, sentTokens, file, fltVars>>

\* the process restarts: the constructor of a file-backed tracker
TrackerRestart(writeOk) ==
    /\ Persistent
    /\ LET made == Constructed(file, now, writeOk)
       IN /\ sentTokens' = made.tokens
          /\ file' = made.file
          /\ lastOp' = [NoOp EXCEPT !.op = "construct", !.before = made.loaded, !.at = now,
                                    !.store = file, !.wrote = writeOk]
    /\ UNCHANGED <<now, ticks, ctlVars, trackerKind, cleanupTimer, fltVars>>

\* clear()
TrackerClear(writeOk) ==
    /\ Persistent \/ writeOk
    /\ sentTokens # <<>>
    /\ sentTokens' = <<>>
    /\ file' = IF Persistent THEN Saved(<<>>, file, writeOk) ELSE file
    /\ lastOp' = [NoOp EXCEPT !.op = "clear", !.store = file, !.wrote = writeOk]
    /\ UNCHANGED <<now, ticks, ctlVars, trackerKind, cleanupTimer, fltVars>>

\* time passes: a millisecond, or one short of the retention window
TrackerTickSteps == {1, RetentionMs - 1}

TrackerTick(d) ==
    /\ ticks < MaxTrackerTicks
    /\ now' = now + d
    /\ ticks' = ticks + 1
    /\ UNCHANGED <<ctlVars, trkVars, fltVars>>

\* what an earlier run may have left on disk
InitialStores ==
    CASE trackerKind = "durable" ->
           {NoFile, [format |-> "corrupt", tokens |-> <<>>],
            [format |-> "legacy", tokens |-> <<"A", "B">>],
            [format |-> "legacy", tokens |-> <<"A", "B", "A">>]}
      [] trackerKind = "legacy" ->
           {NoFile, [format |-> "corrupt", tokens |-> <<>>],
            [format |-> "legacy", tokens |-> <<"A", "B">>]}
      [] OTHER -> {NoFile}

InitTracker ==
    /\ now = Now0 /\ ticks = 0
    /\ env = RequiredSet /\ variant = "batch"
    /\ startPc = "init" /\ isRunning = FALSE /\ intervalId = FALSE /\ exited = FALSE /\ stopped = NotStopped /\ dispatched = NoHistory
    /\ trackerKind \in {"ephemeral", "durable", "legacy"}
    /\ cleanupTimer = (trackerKind = "ephemeral")
    /\ \E f \in InitialStores, writeOk \in BOOLEAN :
          LET made == Constructed(f, Now0, writeOk)
          IN /\ sentTokens = made.tokens
             /\ file = made.file
             /\ lastOp = [NoOp EXCEPT !.op = "construct", !.before = made.loaded, !.at = Now0,
                                      !.store = f, !.wrote = writeOk]
    /\ cycles = EmptyBag
    /\ filterKind = "batch" /\ response = <<>> /\ filtered = <<>>
    /\ filterPc = "ready" /\ stats = NoStats

NextTracker ==
    \/ \E a \in Addresses, writeOk \in BOOLEAN : TrackerMark(a, writeOk)
    \/ TrackerCleanup
    \/ TrackerStop
    \/ \E writeOk \in BOOLEAN : TrackerRestart(writeOk)
    \/ \E writeOk \in BOOLEAN : TrackerClear(writeOk)
    \/ \E d \in TrackerTickSteps : TrackerTick(d)

SpecTracker == InitTracker /\ [][NextTracker]_vars

----------------------------------------------------------------------------
(* The ephemeral TokenTracker with its cleanup timer on the clock: the timer
   set by the constructor fires every cleanupIntervalMs *)

\* a timer of twice the period
TimerPeriodDoubled == 2 * cleanupIntervalMs

\* setInterval(() => this.cleanup(), this.cleanupIntervalMs)
TimerPeriodMs == cleanupIntervalMs

\* the first firing instant after t
NextCleanupAt(t) == Now0 + ((t - Now0) \div TimerPeriodMs + 1) * TimerPeriodMs

\* the timer's callback is due now and has not run yet
CleanupDue ==
    /\ cleanupTimer /\ now > Now0 /\ (now - Now0) % TimerPeriodMs = 0
    /\ ~(lastOp.op = "evict" /\ lastOp.at = now)

\* the timer fires
TimedCleanup == CleanupDue /\ TrackerCleanup

\* markAsSent at the current instant
TimedMark(tokenAddress) == TrackerMark(tokenAddress, TRUE)

\* time passes: a millisecond, or up to the timer's next firing, and never
\* past a firing that is due
TimedSteps == {1, cleanupIntervalMs}

TimedAdvance(d) ==
    /\ ~CleanupDue
    /\ LET next == NextCleanupAt(now)
           to == IF now + d < next THEN now + d ELSE next
       IN /\ to <= Now0 + MaxCleanupPeriods * cleanupIntervalMs
          /\ now' = to
    /\ IF d = 1 THEN ticks < MaxTrackerTicks /\ ticks' = ticks + 1 ELSE UNCHANGED ticks
    /\ UNCHANGED <<ctlVars, trkVars, fltVars>>

InitCleanup ==
    /\ now = Now0 /\ ticks = 0
    /\ env = RequiredSet /\ variant = "batch"
    /\ startPc = "init" /\ isRunning = FALSE /\ intervalId = FALSE
    /\ exited = FALSE /\ stopped = NotStopped /\ dispatched = NoHistory
    /\ trackerKind = "ephemeral" /\ sentTokens = <<>> /\ cleanupTimer = TRUE
    /\ file = NoFile /\ lastOp = NoOp
    /\ cycles = EmptyBag
    /\ filterKind = "batch" /\ response = <<>> /\ filtered = <<>>
    /\ filterPc = "ready" /\ stats = NoStats

NextCleanup ==
    \/ \E a \in Addresses : TimedMark(a)
    \/ TimedCleanup
    \/ \E d \in TimedSteps : TimedAdvance(d)

SpecCleanup == InitCleanup /\ [][NextCleanup]_vars

----------------------------------------------------------------------------
(* The lifetime of an item: the first controller with the ephemeral tracker,
   one cycle at a time, each run from its fetch to its end with no other
   callback in between and every dispatch sent, the cleanup timer on the
   clock *)

\* a MAX_TOKEN_AGE_SECONDS longer than the tracker's retention
LongWindowSeconds == 5 * maxTokenAgeSeconds

\* a pair created as the process starts, and one dated 100 s later than that
LifetimePairs == {Pair("A", Sec0, <<100>>), Pair("B", Sec0 + 100, <<100>>)}

LifetimeResponses == {<<p>> : p \in LifetimePairs}

\* the dispatch loop when every sendTokenAlert resolves to true: the marks
RECURSIVE AllSent(_, _, _)
AllSent(newPairs, tokens, t) ==
    IF newPairs = <<>> THEN tokens
    ELSE AllSent(Tail(newPairs),
                 TokensAfterSend(TRUE, tokens, Head(newPairs).address, t), t)

\* a timer-triggered checkForNewTokens from start to end: fetch, partition
\* by hasSent, dispatch and mark each new pair
WholeCycle(resp) ==
    /\ ~exited /\ intervalId /\ variant = "batch"
    /\ LET pairs == Fetched(TRUE, resp, now)
           newPairs == NewPairs(pairs)
       IN /\ Len(dispatched.log) + Len(newPairs) <= dispatched.limit
          /\ sentTokens' = AllSent(newPairs, AfterHasCalls(sentTokens, pairs, 1, Len(pairs), now),
                                   now)
          /\ dispatched' = [dispatched EXCEPT
                              !.log = @ \o [j \in 1..Len(newPairs) |-> <<"sent", newPairs[j]>>]]
    /\ UNCHANGED <<now, ticks, env, variant, startPc, isRunning, intervalId, exited, stopped,
                   cycles, trackerKind, cleanupTimer, file, lastOp, fltVars>>

\* start() has finished; its first check found nothing
InitLifetime ==
    /\ now = Now0 /\ ticks = 0
    /\ env \in {RequiredSet,
                [RequiredSet EXCEPT !.MAX_TOKEN_AGE_SECONDS = <<LongWindowSeconds>>]}
    /\ variant = "batch"
    /\ startPc = "started" /\ isRunning = TRUE /\ intervalId = TRUE
    /\ exited = FALSE /\ stopped = NotStopped /\ dispatched = [limit |-> MaxSent, log |-> <<>>]
    /\ trackerKind = "ephemeral" /\ sentTokens = <<>> /\ cleanupTimer = TRUE
    /\ file = NoFile /\ lastOp = NoOp
    /\ cycles = EmptyBag
    /\ filterKind = "batch" /\ response = <<>> /\ filtered = <<>>
    /\ filterPc = "ready" /\ stats = NoStats

NextLifetime ==
    \/ \E resp \in LifetimeResponses : WholeCycle(resp)
    \/ TimedCleanup
    \/ \E d \in TimedSteps : TimedAdvance(d)

SpecLifetime == InitLifetime /\ [][NextLifetime]_vars

----------------------------------------------------------------------------
(* The running controller, either iteration, from the moment start() has
   finished: its poll timer, the awaits of every invocation and the clock,
   which advances one poll period at a time while DexScreener keeps listing
   two fresh pairs *)

\* the pairs listed: B, 25 s old when the behaviour starts, and A, 30 s old
RetryPair == Pair("B", Sec0 - 25, <<100>>)

OlderPair == Pair("A", Sec0 - 30, <<100>>)

RetryResponses == {<<>>, <<RetryPair>>, <<OlderPair, RetryPair>>}

\* how an awaited sendTokenAlert settles here: true, or false
RetryResults == {"sent", "failed"}

\* time passes: one poll period
PeriodPasses ==
    /\ ~exited /\ ticks < MaxPollPeriods
    /\ now' = now + checkIntervalMs
    /\ ticks' = ticks + 1
    /\ UNCHANGED <<ctlVars, trkVars, fltVars>>

\* start() has finished; its first check found nothing
InitRetry ==
    /\ now = Now0 /\ ticks = 0
    /\ env = RequiredSet
    /\ variant \in {"batch", "inline"}
    /\ startPc = "started" /\ isRunning = TRUE /\ intervalId = TRUE
    /\ exited = FALSE /\ stopped = NotStopped
    /\ dispatched = [limit |-> MaxHistory, log |-> <<>>]
    /\ trackerKind = "ephemeral" /\ sentTokens = <<>> /\ cleanupTimer = TRUE
    /\ file = NoFile /\ lastOp = NoOp
    /\ cycles = EmptyBag
    /\ filterKind = "batch" /\ response = <<>> /\ filtered = <<>>
    /\ filterPc = "ready" /\ stats = NoStats

NextRetry ==
    \/ PollTick
    \/ \E r \in Invocations, ok \in BOOLEAN, resp \in RetryResponses :
          FetchReturnBatch(r, ok, resp)
    \/ \E r \in Invocations, result \in RetryResults : SendReturnBatch(r, result)
    \/ \E r \in Invocations : SleepReturnBatch(r)
    \/ \E r \in Invocations, ok \in BOOLEAN, resp \in RetryResponses :
          FetchReturnInline(r, ok, resp)
    \/ \E r \in Invocations, sent \in BOOLEAN : SendReturnInline(r, sent)
    \/ \E r \in Invocations : SleepReturnInline(r)
    \/ PeriodPasses

SpecRetry == InitRetry /\ [][NextRetry]_vars

\* the pair whose dispatch invocation r awaits
DispatchedPair(r) == IF variant = "batch" THEN r.newPairs[r.i + 1] ELSE r.pairs[r.i + 1]

\* the dispatch of the pair of address a, awaited by some invocation, returns
\* true
SendSucceeds(a) ==
    \E r \in Invocations :
        /\ r.pc = "sending" /\ DispatchedPair(r).address = a
        /\ SendReturnBatch(r, "sent") \/ SendReturnInline(r, TRUE)

\* the fetch awaited by some invocation returns DexScreener's listing
FetchSucceeds ==
    \E r \in Invocations, resp \in RetryResponses \ {<<>>} :
        FetchReturnBatch(r, TRUE, resp) \/ FetchReturnInline(r, TRUE, resp)

\* some awaited promise settles
AwaitSettles ==
    \/ \E r \in Invocations, ok \in BOOLEAN, resp \in RetryResponses :
          FetchReturnBatch(r, ok, resp) \/ FetchReturnInline(r, ok, resp)
    \/ \E r \in Invocations, result \in RetryResults : SendReturnBatch(r, result)
    \/ \E r \in Invocations, sent \in BOOLEAN : SendReturnInline(r, sent)
    \/ \E r \in Invocations : SleepReturnBatch(r) \/ SleepReturnInline(r)

\* the timer fires while it is set and every awaited promise settles; the
\* listing is fetched, and a dispatch of B succeeds, again and again if asked
\* for again and again
SpecRetryFair ==
    /\ SpecRetry
    /\ WF_vars(PollTick)
    /\ WF_vars(AwaitSettles)
    /\ SF_vars(FetchSucceeds)
    /\ SF_vars(SendSucceeds("B"))

----------------------------------------------------------------------------
(* DexScreenerService alone: one call of fetchNewSolanaPairs of each
   iteration on every short response built from pairs around the thresholds *)

NowSec == Now0 \div 1000

CreatedAts(kind) ==
    {0, NowSec - MaxAgeSeconds(kind) - 1, NowSec - MaxAgeSeconds(kind), NowSec, NowSec + 1}

Liquidities(kind) ==
    {<<>>, <<MinLiquidity(kind)>>,
     <<IF MinLiquidity(kind) > 0 THEN MinLiquidity(kind) - 1 ELSE 0>>}

Universe(kind) ==
    {Pair(a, c, l) : a \in Addresses, c \in CreatedAts(kind), l \in Liquidities(kind)}
    \cup {[address |-> "A", chainId |-> "ethereum", pairCreatedAt |-> NowSec,
           liquidity |-> <<MinLiquidity(kind)>>]}

Repeat(x, n) == [j \in 1..n |-> x]

\* responses long enough for the ten-item cuts: a run of one pair with
\* another pair before or after it
RunLengths == {topNewest - 1, topNewest}

LongResponses(kind) ==
    {Repeat(x, n) \o <<y>> : x \in Universe(kind), y \in Universe(kind), n \in RunLengths}
    \cup {<<y>> \o Repeat(x, n) : x \in Universe(kind), y \in Universe(kind), n \in RunLengths}

\* fetchNewSolanaPairs on a response that arrived
RunFilter ==
    /\ filterPc = "ready"
    /\ filtered' = FilterOutput(filterKind, response, now)
    /\ stats' = FilterStats(filterKind, response, now)
    /\ filterPc' = "done"
    /\ UNCHANGED <<now, ticks, ctlVars, trkVars, filterKind, response>>

\* fetchNewSolanaPairs when the request throws: the catch returns []
FetchFails ==
    /\ filterPc = "ready"
    /\ filtered' = <<>>
    /\ filterPc' = "failed"
    /\ UNCHANGED <<now, ticks, ctlVars, trkVars, filterKind, response, stats>>

InitFilter ==
    /\ now \in {Now0, Now0 + 1} /\ ticks = 0
    /\ env \in {RequiredSet, [RequiredSet EXCEPT !.MIN_LIQUIDITY_USD = <<0>>]}
    /\ variant = "batch"
    /\ startPc = "init" /\ isRunning = FALSE /\ intervalId = FALSE /\ exited = FALSE /\ stopped = NotStopped /\ dispatched = NoHistory
    /\ trackerKind = "ephemeral" /\ sentTokens = <<>> /\ cleanupTimer = TRUE
    /\ file = NoFile /\ lastOp = NoOp
    /\ cycles = EmptyBag
    /\ filterKind \in {"hours", "batch", "top", "fiveMinutes"}
    /\ response \in SeqsOver(Universe(filterKind), MaxItems) \cup LongResponses(filterKind)
    /\ filtered = <<>> /\ filterPc = "ready" /\ stats = NoStats

NextFilter == RunFilter \/ FetchFails

SpecFilter == InitFilter /\ [][NextFilter]_vars

----------------------------------------------------------------------------
(* Properties *)

IsPrefix(a, b) == Len(a) <= Len(b) /\ a = SubSeq(b, 1, Len(a))

\* the pairs of the log entries with one of the tags, in order
Logged(r, tags) ==
    LET Tagged(e) == e[1] \in tags
        sel == SelectSeq(r.log, Tagged)
    IN [j \in 1..Len(sel) |-> sel[j][2]]

Sends(r) == Logged(r, {"send"})
Results(r) == Logged(r, {"sent", "failed", "threw"})
Sleeps(r) == Logged(r, {"sleep"})

\* the result tags of an invocation, in order
Outcomes(r) ==
    LET Tagged(e) == e[1] \in {"sent", "failed", "threw"}
        sel == SelectSeq(r.log, Tagged)
    IN [j \in 1..Len(sel) |-> sel[j][1]]

\* the examined pairs that the tracker did not hold when hasSent was asked
NotHeld(r) ==
    LET zipped == [j \in 1..Len(r.heldAt) |-> <<r.pairs[j], r.heldAt[j]>>]
        Free(z) == ~z[2]
        sel == SelectSeq(zipped, Free)
    IN [j \in 1..Len(sel) |-> sel[j][1]]

DispatchSet(r) == IF variant = "batch" THEN r.newPairs ELSE NotHeld(r)

\* the step in which the dispatch awaited by invocation r returns and leaves
\* it as q
DispatchReturns(r, q) ==
    /\ r.pc = "sending"
    /\ q.pc # "fetching"
    /\ Len(Results(q)) = Len(Results(r)) + 1
    /\ \/ cycles' = (cycles (-) SetToBag({r})) (+) SetToBag({q})
       \/ cycles' = (StillActive (-) SetToBag({r})) (+) SetToBag({q})

\* C1: at any time at most one invocation of checkForNewTokens is between
\* its start and its end.
NoOverlap == ActiveCount <= 1

\* C2: a dispatch never succeeds for an address whose tracker entry is
\* retained at that moment (no address is sent twice while tracked).
NoDuplicateSent ==
    [][\A r \in Invocations, q \in BagToSet(cycles') :
         (DispatchReturns(r, q) /\ q.sentCount = r.sentCount + 1) =>
            LET pair == IF variant = "batch" THEN r.newPairs[r.i + 1] ELSE r.pairs[r.i + 1]
            IN ~hasSent(pair.address)]_vars

\* C3: the pairs handed to dispatch in a cycle are exactly the candidates the
\* tracker did not hold when hasSent was asked, in candidate order; a held
\* candidate is never dispatched.  (A cycle that an exception ended has
\* dispatched a prefix of them.)
PartitionByHas ==
    \A r \in Invocations :
        /\ IsPrefix(Sends(r), NotHeld(r))
        /\ r.pc = "done" /\ r.error # "caught"
             => Sends(r) = NotHeld(r) /\ Len(r.heldAt) = Len(r.pairs)
        /\ variant = "batch" /\ r.pc \in {"sending", "sleeping", "done"} /\ r.error # "caught"
             => r.newPairs = NotHeld(r)

\* C3 witness: a finished cycle that dropped a held candidate and dispatched
\* another
PartitionWitness ==
    \E r \in Invocations :
        /\ r.pc = "done" /\ Sends(r) # <<>>
        /\ \E j \in 1..Len(r.heldAt) : r.heldAt[j]

\* C4: when a cycle ends, every item of its dispatch set was attempted
\* exactly once, in order, whatever the earlier attempts returned, and the
\* poll timer set by start() is still set.
BatchNotAborted ==
    \A r \in Invocations :
        r.pc = "done" =>
             /\ Sends(r) = DispatchSet(r)
             /\ Results(r) = DispatchSet(r)
             /\ variant = "batch" => r.sentCount + r.failedCount = Len(r.newPairs)
             /\ ~exited /\ startPc = "started" => intervalId

\* C4 witness: a finished cycle of three items whose first dispatch returned
\* false, whose second threw and whose third was sent
BatchNotAbortedWitness ==
    \E r \in Invocations :
        /\ r.pc = "done"
        /\ Outcomes(r) = <<"failed", "threw", "sent">>

\* C5: the step in which a dispatch returns marks the item's address with
\* the current instant when it returned success, and leaves the tracker as
\* it was when it returned failure.
MarkIffSent ==
    [][\A r \in Invocations, q \in BagToSet(cycles') :
         DispatchReturns(r, q) =>
            LET pair == IF variant = "batch" THEN r.newPairs[r.i + 1] ELSE r.pairs[r.i + 1]
                Others(tokens) == {tokens[j] : j \in {k \in 1..Len(tokens) :
                                                        tokens[k][1] # pair.address}}
            IN IF q.sentCount = r.sentCount + 1
               THEN /\ \E j \in 1..Len(sentTokens') : sentTokens'[j] = <<pair.address, now>>
                    /\ Others(sentTokens') = Others(sentTokens)
               ELSE sentTokens' = sentTokens]_vars

\* C5 witness: a cycle in which one dispatch failed and a later one was sent;
\* the failed address is not tracked, the sent one is
MarkIffSentWitness ==
    \E r \in Invocations :
        /\ Outcomes(r) = <<"failed", "sent">>
        /\ ~hasSent(Results(r)[1].address)
        /\ hasSent(Results(r)[2].address)

\* C6: a cycle that dispatched N items slept exactly N - 1 times.
PacingDelays ==
    \A r \in Invocations :
        r.pc = "done" /\ Sends(r) # <<>> => Len(Sleeps(r)) = Len(Sends(r)) - 1

\* C7 as claimed: hasSent(id) holds exactly when an entry of id exists whose
\* age does not exceed the retention window.
HasIffUnexpired ==
    trackerKind # "legacy" =>
        \A a \in Addresses :
            hasSent(a) <=> \E j \in 1..Len(sentTokens) :
                              /\ sentTokens[j][1] = a
                              /\ now - sentTokens[j][2] <= RetentionMs

\* C7 as amended: hasSent(id) holds exactly when an entry of id exists,
\* whatever its age.
HasIffEntry ==
    \A a \in Addresses :
        hasSent(a) <=> \E j \in 1..Len(sentTokens) : EntryAddress(sentTokens[j]) = a

\* C7 witness: an entry older than the retention window that no eviction
\* has removed yet
HasIffEntryWitness ==
    /\ trackerKind # "legacy"
    /\ \E j \in 1..Len(sentTokens) : now - sentTokens[j][2] > RetentionMs

\* C8: an eviction at instant `at` leaves exactly the entries it found with
\* at - sentAtInstant <= retentionWindow, in both timestamped trackers.
EvictionBoundary ==
    lastOp.op \in {"evict", "construct"} /\ trackerKind # "legacy" =>
        LET Unexpired(e) == ~(lastOp.at - e[2] > RetentionMs)
        IN sentTokens = SelectSeq(lastOp.before, Unexpired)

\* C8 witness: an eviction of the durable tracker that found one entry aged
\* exactly the window and kept it, and one a millisecond older and removed it
EvictionBoundaryWitness ==
    /\ trackerKind = "durable" /\ lastOp.op = "construct"
    /\ \E j, k \in 1..Len(lastOp.before) :
          /\ lastOp.at - lastOp.before[j][2] = RetentionMs
          /\ \E m \in 1..Len(sentTokens) : sentTokens[m] = lastOp.before[j]
          /\ lastOp.at - lastOp.before[k][2] = RetentionMs + 1
          /\ ~hasSent(lastOp.before[k][1])

\* C9: after a second mark of one address in succession, hasSent holds and
\* getSentCount is what it was after the first.
MarkIdempotent ==
    lastOp.op = "mark" /\ lastOp.rep >= 2 =>
        hasSent(lastOp.id) /\ getSentCount = lastOp.count

\* C9 witness: a second successive mark, made at a later instant than the
\* first, with another address tracked too
MarkIdempotentWitness ==
    /\ lastOp.op = "mark" /\ lastOp.rep = 2 /\ getSentCount = 2
    /\ trackerKind # "legacy"
    /\ \E j \in 1..Len(sentTokens) :
          sentTokens[j][1] = lastOp.id /\ sentTokens[j][2] = now /\ now > Now0

\* C10: no pair a filter returns was created later than now.
NoFutureInOutput ==
    filterPc = "done" =>
        \A j \in 1..Len(filtered) : filtered[j].pairCreatedAt * 1000 <= now

----------------------------------------------------------------------------
(* Properties of the filters *)

Range(s) == {s[j] : j \in 1..Len(s)}

AgeMs(pair, t) == t - pair.pairCreatedAt * 1000

Truncating(kind) == kind \in {"batch", "top"}

MaxResults(kind) == IF kind = "batch" THEN maxTokensPerBatch ELSE topNewest

\* the claimed acceptance predicate: a solana pair with a creation time, no
\* older than the window, with a stated liquidity of at least the minimum
Eligible(kind, pair, t) ==
    /\ IsSolana(pair) /\ HasCreatedAt(pair)
    /\ AgeMs(pair, t) <= MaxAgeSeconds(kind) * 1000
    /\ pair.liquidity # <<>> /\ pair.liquidity[1] >= MinLiquidity(kind)

EligiblePairs == LET E(pair) == Eligible(filterKind, pair, now) IN SelectSeq(response, E)

\* C11: a pair older than the window is never returned; a pair with a
\* creation time, of age at most the window and liquidity at least the
\* minimum is returned (when no future-date step and no ten-item cut applies
\* to it).
FilterAcceptance ==
    filterPc = "done" =>
        \A j \in 1..Len(response) :
            LET p == response[j]
            IN /\ IsSolana(p) /\ HasCreatedAt(p)
                    /\ AgeMs(p, now) > MaxAgeSeconds(filterKind) * 1000
                  => p \notin Range(filtered)
               /\ Eligible(filterKind, p, now)
                    /\ ~(filterKind = "hours" /\ p.pairCreatedAt * 1000 > now)
                    /\ (Truncating(filterKind) => Len(response) <= MaxResults(filterKind))
                  => p \in Range(filtered)

\* C11 witness: the batch filter returned a pair aged exactly the window with
\* exactly the minimum liquidity and rejected a pair a second older
FilterAcceptanceWitness ==
    /\ filterPc = "done" /\ filterKind = "batch"
    /\ \E p \in Range(filtered) :
          AgeMs(p, now) = maxTokenAgeSeconds * 1000 /\ p.liquidity = <<minLiquidityUsd>>
    /\ \E q \in Range(response) \ Range(filtered) :
          HasCreatedAt(q) /\ AgeMs(q, now) = (maxTokenAgeSeconds + 1) * 1000

\* C12: a filter that cuts to maxResults returns min(k, maxResults) pairs
\* when k pairs are eligible, all of them eligible, and no eligible pair
\* left out is newer than a returned one.
TruncationAfterFilter ==
    filterPc = "done" /\ Truncating(filterKind) =>
        LET k == Len(EligiblePairs)
            m == MaxResults(filterKind)
        IN /\ Len(filtered) = IF k < m THEN k ELSE m
           /\ Range(filtered) \subseteq Range(EligiblePairs)
           /\ \A p \in Range(EligiblePairs) \ Range(filtered), q \in Range(filtered) :
                 q.pairCreatedAt >= p.pairCreatedAt

\* the pairs of s created at c, in order
TiesOf(s, c) == LET At(pair) == pair.pairCreatedAt = c IN SelectSeq(s, At)

\* C13: the output of a filter that cuts is no longer than maxResults; the
\* output of every filter is in non-increasing order of creation time, and
\* pairs of equal creation time are in their input order.
SortedStable ==
    filterPc = "done" =>
        /\ Truncating(filterKind) => Len(filtered) <= MaxResults(filterKind)
        /\ \A j \in 1..(Len(filtered) - 1) :
              filtered[j].pairCreatedAt >= filtered[j + 1].pairCreatedAt
        /\ \A p \in Range(filtered) :
              LET Returned(pair) == pair \in Range(filtered)
              IN IsPrefix(TiesOf(filtered, p.pairCreatedAt),
                          SelectSeq(TiesOf(response, p.pairCreatedAt), Returned))

\* C13 witness: eleven pairs passed the batch filter's tests, ten were
\* returned, and two different pairs of one creation time are among them
SortedStableWitness ==
    /\ filterPc = "done" /\ filterKind = "batch"
    /\ Len(EligiblePairs) > maxTokensPerBatch /\ Len(filtered) = maxTokensPerBatch
    /\ \E j \in 1..(Len(filtered) - 1) :
          /\ filtered[j] # filtered[j + 1]
          /\ filtered[j].pairCreatedAt = filtered[j + 1].pairCreatedAt

\* C14: the rejection counts a filter run reports and the number of pairs
\* it returns add up to the number of pairs fetched.
RejectionAccounting ==
    filterPc = "done" /\ filterKind \in {"hours", "top"} =>
        stats.noTimestamp + stats.futureDate + stats.tooOld + stats.lowLiquidity
            + Len(filtered) = Len(response)

----------------------------------------------------------------------------
(* Properties of the controller's error handling *)

\* the step in which the fetch awaited by invocation r fails and leaves it
\* as q
FetchFailureReturns(r, q) ==
    /\ r.pc = "fetching" /\ q.error = "fetch" /\ q.first = r.first
    /\ cycles' = (StillActive (-) SetToBag({r})) (+) SetToBag({q})

\* C16: an invocation whose fetch failed has ended with no candidate, no
\* dispatch and no mark; the step in which the fetch failed left the tracker
\* as it was and the poll timer set, so the next tick starts a cycle.
FetchFailureAbortsCycle ==
    [][\A q \in BagToSet(cycles') :
         q.error = "fetch" =>
            /\ q.pc = "done" /\ q.pairs = <<>> /\ q.log = <<>> /\ q.sentCount = 0
            /\ \A r \in Invocations :
                  FetchFailureReturns(r, q) =>
                     /\ sentTokens' = sentTokens
                     /\ ~exited' /\ isRunning' /\ intervalId' /\ startPc' = "started"]_vars

\* C16 witness: a later cycle's fetch has failed while an address is
\* tracked and another invocation is in flight
FetchFailureWitness ==
    \E r \in Invocations :
        /\ r.error = "fetch" /\ ~r.first /\ r.pc = "done"
        /\ sentTokens # <<>> /\ intervalId /\ ActiveCount > 0

\* C17: an invocation in which an exception was raised has ended in the
\* catch block, and the controller is running with its poll timer set.
CaughtCycleContinues ==
    \A r \in Invocations :
        r.error = "caught" =>
            /\ r.pc = "done"
            /\ ~exited /\ isRunning /\ intervalId /\ startPc = "started"

\* C17 witness: an exception was raised after a dispatch of the same cycle
\* had been sent
CaughtCycleWitness ==
    \E r \in Invocations :
        /\ r.error = "caught" /\ r.pc = "done" /\ r.sentCount = 1
        /\ isRunning /\ intervalId

\* C18: with the bot token or the chat id missing loadConfig throws the
\* error that names the variable and no cycle is ever started; after a
\* failed connection test the process has exited with no cycle started and
\* no timer set.
ConfigErrorFatal ==
    /\ ~env.TELEGRAM_BOT_TOKEN
         => loadConfig(env) = "TELEGRAM_BOT_TOKEN environment variable is required"
    /\ env.TELEGRAM_BOT_TOKEN /\ ~env.TELEGRAM_CHAT_ID
         => loadConfig(env) = "TELEGRAM_CHAT_ID environment variable is required"
    /\ env # RequiredSet
         => /\ startPc \in {"boot", "configError"}
            /\ cycles = EmptyBag /\ ~isRunning /\ ~intervalId
    /\ startPc \in {"configError", "failed"}
         => exited /\ cycles = EmptyBag /\ ~isRunning /\ ~intervalId

\* C18 witness: the process has ended on the missing chat id
ConfigErrorWitness ==
    /\ startPc = "configError" /\ exited
    /\ env.TELEGRAM_BOT_TOKEN /\ ~env.TELEGRAM_CHAT_ID

----------------------------------------------------------------------------
(* Properties of the file-backed tracker *)

\* the tracker was just constructed on a store holding a bare list of
\* addresses
LoadedLegacyList ==
    trackerKind = "durable" /\ lastOp.op = "construct" /\ lastOp.store.format = "legacy"

\* every address of the list is tracked with the load instant, and nothing else
LegacyListTracked ==
    /\ \A a \in Range(lastOp.store.tokens) : hasSent(a)
    /\ \A j \in 1..Len(sentTokens) : sentTokens[j][2] = lastOp.at
    /\ getSentCount = Cardinality(Range(lastOp.store.tokens))

\* the store holds the tracked entries as {address, timestamp}
StoreRewritten == file.format = "tokens" /\ file.tokens = TrackedTokens(sentTokens)

\* C19 as claimed: after construction on a bare list of addresses every
\* address is tracked with the load instant, the count is the number of
\* distinct addresses, and the store has been rewritten in the new schema.
LegacyLoadRewrites == LoadedLegacyList => LegacyListTracked /\ StoreRewritten

\* C19 as amended: the same, with the store rewritten when the write
\* succeeded and left as the bare list when it failed.
LegacyLoadMigrates ==
    LoadedLegacyList =>
        /\ LegacyListTracked
        /\ IF lastOp.wrote THEN StoreRewritten ELSE file = lastOp.store

\* C19 witness: a list naming A twice and B once was loaded at a later
\* instant than the start, and rewritten as two entries
LegacyLoadWitness ==
    /\ LoadedLegacyList /\ Len(lastOp.store.tokens) = 3
    /\ getSentCount = 2 /\ StoreRewritten /\ lastOp.at > Now0

\* C20: construction on a store that cannot be read or parsed ends with an
\* empty set; a mark whose write failed ends with the address tracked and
\* the store as it was.
TrackerNeverRaises ==
    trackerKind = "durable" =>
        /\ lastOp.op = "construct" /\ lastOp.store.format = "corrupt"
             => sentTokens = <<>> /\ getSentCount = 0 /\ file = lastOp.store
        /\ lastOp.op = "mark" /\ ~lastOp.wrote
             => hasSent(lastOp.id) /\ file = lastOp.store

\* C20 witness: a mark whose write failed: the address is tracked and is
\* not in the store, which is a saved list of another address
UnsavedMarkWitness ==
    /\ trackerKind = "durable" /\ lastOp.op = "mark" /\ ~lastOp.wrote
    /\ hasSent(lastOp.id)
    /\ file.format = "tokens" /\ file.tokens # <<>>
    /\ \A j \in 1..Len(file.tokens) : file.tokens[j].address # lastOp.id

\* every entry is within the retention window at instant t
AllUnexpired(tokens, t) == \A j \in 1..Len(tokens) : t - tokens[j][2] <= RetentionMs

\* C21: after a mark or a clear of the durable tracker whose write succeeded
\* the store holds exactly the in-memory entries, and a construction that
\* follows it while every entry is within the retention window tracks the
\* same addresses with the same instants.
DurableRoundTrip ==
    [][trackerKind = "durable" =>
         /\ lastOp'.op \in {"mark", "clear"} /\ lastOp'.wrote
               => file'.format = "tokens" /\ ParsedEntries(file'.tokens) = sentTokens'
         /\ lastOp.op \in {"mark", "clear"} /\ lastOp.wrote /\ lastOp'.op = "construct"
               /\ AllUnexpired(sentTokens, now)
               => sentTokens' = sentTokens]_vars

\* C21 witness: a restart on a saved store of two entries, one of them
\* marked at an earlier instant than the other, both tracked afterwards
DurableRoundTripWitness ==
    /\ trackerKind = "durable" /\ lastOp.op = "construct" /\ lastOp.at > Now0
    /\ lastOp.store.format = "tokens" /\ Len(lastOp.store.tokens) = 2
    /\ lastOp.store.tokens[1].timestamp < lastOp.store.tokens[2].timestamp
    /\ sentTokens = ParsedEntries(lastOp.store.tokens)

----------------------------------------------------------------------------
(* Properties of cancellation *)

\* C22: once a handler has called stop(), whatever start() was doing, no
\* poll timer is set, the controller is not running and no invocation of
\* checkForNewTokens exists or is started.
StopEndsScheduling ==
    stopped.called => ~intervalId /\ ~isRunning /\ cycles = EmptyBag /\ exited

\* C22 witness: stop() was called while start() was awaiting the first
\* check, which was awaiting its fetch
StopEndsSchedulingWitness ==
    /\ stopped.called /\ stopped.running /\ startPc = "firstCheck"
    /\ stopped.inFlight = {[pc |-> "fetching", later |-> FALSE]}
    /\ ~intervalId

\* C23: once a handler has called stop(), the ephemeral tracker's cleanup
\* timer is cancelled.
StopCancelsCleanup ==
    stopped.called /\ trackerKind = "ephemeral" => ~cleanupTimer

\* the dispatches started by the invocations of bag c
SendsIn(c) ==
    LET RECURSIVE Sum(_)
        Sum(S) == IF S = {} THEN 0
                  ELSE LET r == CHOOSE x \in S : TRUE
                       IN CopiesIn(r, c) * Len(Sends(r)) + Sum(S \ {r})
    IN Sum(BagToSet(c))

\* C24: after a handler has called stop() no dispatch is started, and the
\* stop itself starts none; no invocation is left in flight.
StopEndsDispatch ==
    [][/\ stopped.called \/ stopped'.called => SendsIn(cycles') <= SendsIn(cycles)
       /\ stopped'.called => \A r \in BagToSet(cycles') : ~Active(r)]_vars

\* C24 witness: stop() was called while an invocation was awaiting a
\* dispatch with a later item still to be dispatched
StopEndsDispatchWitness ==
    /\ stopped.called /\ exited
    /\ [pc |-> "sending", later |-> TRUE] \in stopped.inFlight

----------------------------------------------------------------------------
(* Properties of the dispatch loop and of the cycle *)

\* the invocations that are awaiting sendTokenAlert
InDispatch ==
    LET RECURSIVE Sum(_)
        Sum(S) == IF S = {} THEN 0
                  ELSE LET r == CHOOSE x \in S : TRUE
                       IN CopiesIn(r, cycles) + Sum(S \ {r})
    IN Sum({r \in Invocations : r.pc = "sending"})

\* C25: at no time are two dispatch calls in flight.
DispatchSequential == InDispatch <= 1

\* C26: the pairs an invocation has dispatched are in non-increasing order
\* of creation time.
DispatchNewestFirst ==
    \A r \in Invocations :
        \A j, k \in 1..Len(Sends(r)) :
            j < k => Sends(r)[j].pairCreatedAt >= Sends(r)[k].pairCreatedAt

\* C26 witness: a finished cycle that dispatched three pairs of three
\* creation times, which came in another order in the response
DispatchNewestFirstWitness ==
    \E r \in Invocations :
        /\ r.pc = "done" /\ Len(Sends(r)) = 3
        /\ Sends(r)[1].pairCreatedAt > Sends(r)[2].pairCreatedAt
        /\ Sends(r)[2].pairCreatedAt > Sends(r)[3].pairCreatedAt

\* the state of the controller: Stopped once the process has exited,
\* Dispatching while an invocation is in its dispatch loop, Fetching while
\* one awaits fetchNewSolanaPairs (which fetches and filters), else Idle
Phase(c, ex) ==
    IF ex THEN "Stopped"
    ELSE IF \E r \in BagToSet(c) : r.pc \in {"sending", "sleeping"} THEN "Dispatching"
    ELSE IF \E r \in BagToSet(c) : r.pc = "fetching" THEN "Fetching"
    ELSE "Idle"

\* Filtering is passed through inside the step that ends Fetching
Transitions ==
    {<<"Idle", "Fetching">>, <<"Fetching", "Dispatching">>, <<"Fetching", "Idle">>,
     <<"Dispatching", "Idle">>}

\* C27: the controller moves Idle -> Fetching -> (Filtering ->) Dispatching
\* -> Idle, back to Idle early when there is nothing to dispatch, and to
\* Stopped only when a signal arrives (or start-up fails before the first
\* cycle).
ControllerStateMachine ==
    [][LET p == Phase(cycles, exited)
           q == Phase(cycles', exited')
       IN p # q =>
            IF q = "Stopped"
            THEN stopped'.called \/ startPc = "boot" \/ startPc' \in {"failed", "configError"}
            ELSE <<p, q>> \in Transitions]_vars

\* C29: no step of the running process removes an entry whose age is within
\* the retention window, whatever invocations are in flight: the entry stays,
\* or is marked again with a later instant.
EvictionInterleavedSafe ==
    [][~exited' =>
         \A j \in 1..Len(sentTokens) :
            now - sentTokens[j][2] <= maxAgeMs =>
               \E k \in 1..Len(sentTokens') :
                  /\ sentTokens'[k][1] = sentTokens[j][1]
                  /\ sentTokens'[k][2] >= sentTokens[j][2]]_vars

\* C29 witness: cleanup ran between a mark of an invocation and its next
\* dispatch and removed the entry, by then expired, that the invocation had
\* made; a later entry of the same invocation is tracked
EvictionInterleavedWitness ==
    \E r \in Invocations :
        /\ r.pc \in {"sending", "sleeping"}
        /\ Len(Logged(r, {"mark"})) = 2
        /\ ~hasSent(Logged(r, {"mark"})[1].address)
        /\ hasSent(Logged(r, {"mark"})[2].address)

\* C28: with the cleanup timer firing every 30 s, a cleanup removes no entry
\* marked less than 2 minutes before it, and no entry is older than 2 minutes
\* plus one cleanup period.
AutoCleanup ==
    /\ \A j \in 1..Len(sentTokens) :
          now - sentTokens[j][2] <= maxAgeMs + cleanupIntervalMs
    /\ lastOp.op = "evict" =>
          \A e \in Range(lastOp.before) :
             lastOp.at - e[2] < maxAgeMs => e \in Range(sentTokens)

\* C28 witness: a cleanup removed an entry marked exactly 2 minutes and one
\* period before it and kept another marked later
AutoCleanupWitness ==
    /\ lastOp.op = "evict" /\ sentTokens # <<>>
    /\ \E e \in Range(lastOp.before) :
          /\ lastOp.at - e[2] = maxAgeMs + cleanupIntervalMs
          /\ ~hasSent(e[1])

\* C30: a pair without liquidity.usd that passes every other step is
\* rejected when the minimum liquidity is positive and returned when it
\* is 0, by every filter.
AbsentLiquidityIsZero ==
    filterPc = "done" =>
        \A p \in Range(response) :
            /\ p.liquidity = <<>> /\ IsSolana(p) /\ HasCreatedAt(p)
            /\ AgeMs(p, now) <= MaxAgeSeconds(filterKind) * 1000 /\ AgeMs(p, now) >= 0
            /\ Truncating(filterKind) => Len(response) <= MaxResults(filterKind)
            => IF MinLiquidity(filterKind) > 0 THEN p \notin Range(filtered)
               ELSE p \in Range(filtered)

----------------------------------------------------------------------------
(* Properties of start-up *)

\* C31: start() awaits the connection test with nothing running; the first
\* check is the only invocation until it has finished, and only then is the
\* poll timer set; every timer-triggered invocation comes after that; a
\* start() called while the bot is running begins no second start-up.
StartupOrdering ==
    /\ startPc \in {"boot", "init", "testing", "configError", "failed"}
          => cycles = EmptyBag /\ ~intervalId /\ ~isRunning
    /\ startPc = "firstCheck"
          => /\ ~intervalId
             /\ BagCardinality(cycles) <= 1
             /\ \A r \in Invocations : r.first /\ Active(r)
             /\ ~exited => isRunning /\ BagCardinality(cycles) = 1
    /\ intervalId => startPc = "started"
    /\ \A r \in Invocations :
          r.first /\ Active(r) => ~intervalId /\ BagCardinality(cycles) = 1
    /\ \A r \in Invocations : ~r.first \/ r.pc = "done" => startPc = "started"

\* C31 witness: the first check dispatched three pairs and ended, and the
\* poll timer is set with no other invocation started yet
StartupOrderingWitness ==
    /\ startPc = "started" /\ intervalId /\ isRunning
    /\ BagCardinality(cycles) = 1
    /\ \E r \in Invocations : r.first /\ r.pc = "done" /\ Len(Results(r)) = 3

\* C33: whenever the controller is not running, no poll timer is set.
LifecycleInvariant == ~isRunning => ~intervalId

\* C33 witness: stop() was called while the poll timer was set and an
\* invocation was in flight, and cleared the timer
LifecycleWitness ==
    /\ stopped.called /\ stopped.running /\ startPc = "started"
    /\ stopped.inFlight # {}
    /\ ~isRunning /\ ~intervalId

----------------------------------------------------------------------------
(* Properties of the lifetime of an item *)

\* C32: with cycles one at a time and a freshness window no longer than the
\* tracker's retention, no pair is dispatched successfully twice.
LifetimeOnce ==
    MaxTokenAge * 1000 <= maxAgeMs =>
        \A j, k \in 1..Len(dispatched.log) :
            j # k /\ dispatched.log[j][1] = "sent" => dispatched.log[j] # dispatched.log[k]

----------------------------------------------------------------------------
(* Properties of a cycle's counts *)

\* the step in which invocation r of the first controller ends as q, having
\* reached its dispatch loop
CycleEnds(r, q) ==
    /\ variant = "batch" /\ Active(r) /\ q.pc = "done" /\ q.first = r.first
    /\ q.newPairs # <<>> /\ q.error # "caught"
    /\ cycles' = (StillActive (-) SetToBag({r})) (+) SetToBag({q})

\* sentCount + failedCount is the size of the dispatch set, and
\* alreadySentCount + that size is the number of candidates
CountsAddUp(q) ==
    /\ q.sentCount + q.failedCount = Len(q.newPairs)
    /\ q.alreadySentCount + Len(q.newPairs) = Len(q.pairs)
    /\ q.sentCount = Len(Logged(q, {"sent"}))

\* C34 as claimed: at the end of every cycle that reached the dispatch loop
\* the counts add up and the tracker holds an entry for every item counted
\* in sentCount.
CycleAccounting ==
    [][\A r \in Invocations, q \in BagToSet(cycles') :
         CycleEnds(r, q) =>
            /\ CountsAddUp(q)
            /\ \A p \in Range(Logged(q, {"sent"})) : hasSent(p.address)']_vars

\* C34 as amended: the counts add up at the end of the cycle; the tracker
\* holds the entry of an item in the step that counts it in sentCount, and
\* at the end of the cycle for every counted item when no more than the
\* retention window has passed on the clock.
CycleAccountingRetained ==
    [][\A r \in Invocations, q \in BagToSet(cycles') :
         /\ CycleEnds(r, q) =>
               /\ CountsAddUp(q)
               /\ now' - Now0 <= maxAgeMs
                     => \A p \in Range(Logged(q, {"sent"})) : hasSent(p.address)'
         /\ variant = "batch" /\ DispatchReturns(r, q) /\ q.sentCount = r.sentCount + 1
               => hasSent(r.newPairs[r.i + 1].address)']_vars

\* C34 witness: a cycle of the first controller has ended that dropped one
\* candidate as already sent, had one dispatch fail and one sent, whose
\* address is tracked
CycleAccountingWitness ==
    /\ variant = "batch"
    /\ \E r \in Invocations :
          /\ r.pc = "done" /\ Len(r.pairs) = 3
          /\ r.alreadySentCount = 1 /\ r.failedCount = 1 /\ r.sentCount = 1
          /\ \A p \in Range(Logged(r, {"sent"})) : hasSent(p.address)

----------------------------------------------------------------------------
(* Properties of what the tracker holds *)

\* the step in which a dispatch of address a returns success
SentStep(a) ==
    \E r \in Invocations, q \in BagToSet(cycles') :
        /\ DispatchReturns(r, q) /\ q.sentCount = r.sentCount + 1
        /\ DispatchedPair(r).address = a

\* the step in which the fetch awaited by some invocation settles
FetchStep ==
    \E r \in Invocations, q \in BagToSet(cycles') :
        /\ r.pc = "fetching" /\ q.pc # "fetching" /\ q.first = r.first
        /\ \/ cycles' = (cycles (-) SetToBag({r})) (+) SetToBag({q})
           \/ cycles' = (StillActive (-) SetToBag({r})) (+) SetToBag({q})

\* C35: the ephemeral tracker is empty when the process starts, and an entry
\* is written only in a step in which a dispatch of its address returns
\* success, with the instant of that step; the step in which a fetch settles
\* (failed, or filtered and partitioned) and the step in which a dispatch
\* fails write nothing.
TrackedWereSent ==
    [][/\ startPc = "boot" => sentTokens = <<>>
       /\ \A e \in Range(sentTokens') \ Range(sentTokens) :
             SentStep(e[1]) /\ e[2] = now
       /\ FetchStep => sentTokens' = sentTokens
       /\ \A r \in Invocations, q \in BagToSet(cycles') :
             DispatchReturns(r, q) /\ q.sentCount = r.sentCount
                => sentTokens' = sentTokens]_vars

\* C35 witness: a cycle had its first and third dispatch sent, both of
\* address A, and its second, of address B, fail; the tracker holds A alone
TrackedWereSentWitness ==
    /\ \E r \in Invocations : Outcomes(r) = <<"sent", "failed", "sent">>
    /\ TrackedAddresses(sentTokens) = {"A"}

----------------------------------------------------------------------------
(* Properties of an item the tracker already holds *)

\* the entries the Map holds for an address
EntriesOf(tokens, a) == {e \in Range(tokens) : e[1] = a}

\* the step in which invocation r asks hasSent about candidates and is left
\* as q
Examines(r, q) ==
    /\ Active(r) /\ q.first = r.first
    /\ Len(q.heldAt) > Len(r.heldAt)
    /\ \/ cycles' = (cycles (-) SetToBag({r})) (+) SetToBag({q})
       \/ cycles' = (StillActive (-) SetToBag({r})) (+) SetToBag({q})

\* C37: the step in which a cycle drops a candidate because the tracker
\* holds its address leaves the entry of that address as it was, instant
\* included.
DroppedKeepsEntry ==
    [][\A r \in Invocations, q \in BagToSet(cycles') :
         Examines(r, q) =>
            \A j \in (Len(r.heldAt) + 1)..Len(q.heldAt) :
                q.heldAt[j] =>
                    /\ EntriesOf(sentTokens', q.pairs[j].address)
                          = EntriesOf(sentTokens, q.pairs[j].address)
                    /\ q.pairs[j] \notin Range(Logged(q, {"send"}))]_vars

\* C37 witness: a cycle dropped B as already sent after a poll period had
\* passed, and B's entry still has the instant of the process start
DroppedKeepsEntryWitness ==
    /\ ticks > 0
    /\ \E r \in Invocations, j \in 1..MaxItems :
          /\ j <= Len(r.heldAt) /\ r.heldAt[j] /\ r.pairs[j] = RetryPair
          /\ Logged(r, {"send"}) = <<>>
    /\ EntriesOf(sentTokens, "B") = {<<"B", Now0>>}

----------------------------------------------------------------------------
(* Properties of an item whose dispatch failed *)

\* some invocation in flight, or the last one that ended, has a dispatch of
\* pair p with this result
HasResult(p, tag) == \E r \in Invocations : <<tag, p>> \in Range(r.log)

\* the seconds-based filter still returns the pair
StillFresh(p) == Fetched(TRUE, <<p>>, now) # <<>>

\* C36: when the timer fires as long as it is set, awaited promises settle,
\* fetches return the listing and dispatches of B succeed again and again if
\* attempted again and again, a B whose dispatch failed and that the tracker
\* does not hold is later dispatched successfully, unless it stops passing
\* the filter first.
FailedIsRetried ==
    (HasResult(RetryPair, "failed") /\ ~hasSent("B"))
        ~> (HasResult(RetryPair, "sent") \/ ~StillFresh(RetryPair))

\* C36 witness: the history has a failed dispatch of B, then a later cycle's
\* successful dispatch of B while B still passes the filter
FailedIsRetriedWitness ==
    /\ \E j, k \in 1..MaxHistory :
          /\ j < k /\ k <= Len(dispatched.log)
          /\ dispatched.log[j] = <<"failed", RetryPair>>
          /\ dispatched.log[k] = <<"sent", RetryPair>>
    /\ HasResult(RetryPair, "sent") /\ ~HasResult(RetryPair, "failed")
    /\ StillFresh(RetryPair)

----------------------------------------------------------------------------
(* Properties of the rejection counters of the hours-based filter *)

\* the number of solana pairs of the response that satisfy W
SolanaCount(W(_)) ==
    Cardinality({j \in 1..Len(response) : IsSolana(response[j]) /\ W(response[j])})

\* C38: after a run of the hours-based filter each counter is the number of
\* pairs that fail its test and none of the tests before it, in the order
\* no timestamp (createdAt = 0), future date, too old, low liquidity; so a
\* rejected pair is in exactly one counter, and the four add up to the
\* number of pairs rejected.
RejectionPrecedence ==
    filterPc = "done" /\ filterKind = "hours" =>
        LET cutoff == now - maxTokenAgeHours * 60 * 60 * 1000
            NoTimestamp(p) == p.pairCreatedAt = 0
            Future(p) == p.pairCreatedAt * 1000 > now
            TooOld(p) == p.pairCreatedAt * 1000 < cutoff
            Low(p) == LiquidityOrZero(p) < MinLiquidity("hours")
            First(p) == NoTimestamp(p)
            Second(p) == ~NoTimestamp(p) /\ Future(p)
            Third(p) == ~NoTimestamp(p) /\ ~Future(p) /\ TooOld(p)
            Fourth(p) == ~NoTimestamp(p) /\ ~Future(p) /\ ~TooOld(p) /\ Low(p)
            Each(p) == TRUE
        IN /\ stats.noTimestamp = SolanaCount(First)
           /\ stats.futureDate = SolanaCount(Second)
           /\ stats.tooOld = SolanaCount(Third)
           /\ stats.lowLiquidity = SolanaCount(Fourth)
           /\ stats.noTimestamp + stats.futureDate + stats.tooOld + stats.lowLiquidity
                 = SolanaCount(Each) - Len(filtered)

\* C38 witness: the hours-based filter ran on a pair that is too old and
\* below the minimum liquidity and a pair with createdAt = 0 and below the
\* minimum liquidity, and counted one as too old and one as no timestamp
RejectionPrecedenceWitness ==
    /\ filterPc = "done" /\ filterKind = "hours" /\ Len(response) = 2
    /\ IsSolana(response[1]) /\ IsSolana(response[2])
    /\ response[1].pairCreatedAt # 0
    /\ response[1].pairCreatedAt * 1000 < now - maxTokenAgeHours * 60 * 60 * 1000
    /\ LiquidityOrZero(response[1]) < MinLiquidity("hours")
    /\ response[2].pairCreatedAt = 0
    /\ LiquidityOrZero(response[2]) < MinLiquidity("hours")
    /\ stats = [noTimestamp |-> 1, futureDate |-> 0, tooOld |-> 1, lowLiquidity |-> 0]

====
